---- MODULE Spec2Model ----
(***************************************************************************)
(* Model of app.py, the Streamlit dashboard over the eco2mix dataset.      *)
(* One run of the script is: load the CSV, check the schema, strip the     *)
(* column names, derive Annee/Mois, evaluate the sidebar and the filter,   *)
(* render the selected page.  A widget interaction re-runs the script from *)
(* the top over the same file.                                             *)
(*                                                                         *)
(* Cells.  A nullable cell is a sequence: <<>> is NaN/NaT/None, <<v>> a    *)
(* value; a parsed timestamp is the pair <<year, month>>.  Plain numeric   *)
(* columns hold integers (MW).  Autonomie holds thousandths, so that       *)
(* mean*100 rounded to one decimal is a rounding to an integer number of   *)
(* tenths of a percent.  A mean is kept exactly, as the pair [sum, cnt].   *)
(* A column name is a sequence of tokens, " " being a whitespace token.    *)
(***************************************************************************)
EXTENDS Integers, Sequences, FiniteSets, TLC

VARIABLES csv, df, pc, page, region, annee, regions, df_filtered, shown, err

vars == <<csv, df, pc, page, region, annee, regions, df_filtered, shown, err>>

\* ------------------------------------------------------------------ bounds

MaxRows == 2
MaxTopRegions == 6
MaxMetricRows == 2

\* ------------------------------------------------------------------ cells

NA == <<>>
Some(v) == <<v>>
IsNA(c) == c = NA
Val(c) == c[1]

RECURSIVE SumSeq(_)
SumSeq(s) == IF s = <<>> THEN 0 ELSE Head(s) + SumSeq(Tail(s))

Min2(a, b) == IF a <= b THEN a ELSE b
Max2(a, b) == IF a >= b THEN a ELSE b

\* Series.min() / Series.max() over the defined cells; NaN when there is none.
SeriesMin(c) ==
  LET S == {Val(c[i]) : i \in {j \in 1..Len(c) : ~IsNA(c[j])}}
  IN IF S = {} THEN NA ELSE Some(CHOOSE x \in S : \A y \in S : x <= y)

SeriesMax(c) ==
  LET S == {Val(c[i]) : i \in {j \in 1..Len(c) : ~IsNA(c[j])}}
  IN IF S = {} THEN NA ELSE Some(CHOOSE x \in S : \A y \in S : x >= y)

\* round(x) of the rational s/c (c > 0), ties to the even integer.
RoundHalfEven(s, c) ==
  LET q == s \div c
      r == s % c
  IN IF 2 * r < c THEN q
     ELSE IF 2 * r > c THEN q + 1
     ELSE IF q % 2 = 0 THEN q ELSE q + 1

\* ------------------------------------------------------------ column names

DateName == <<"Date - Heure">>
RegionName == <<"Region">>
Space == " "

RECURSIVE LStrip(_)
LStrip(n) == IF n # <<>> /\ Head(n) = Space THEN LStrip(Tail(n)) ELSE n

RECURSIVE RStrip(_)
RStrip(n) ==
  IF n # <<>> /\ n[Len(n)] = Space THEN RStrip(SubSeq(n, 1, Len(n) - 1)) ELSE n

\* str.strip() of one column name.
Strip(n) == RStrip(LStrip(n))

\* `name in df.columns`
HasColumn(frame, name) == \E f \in DOMAIN frame.columns : frame.columns[f] = name

\* df.columns = df.columns.str.strip()
StripColumns(frame) ==
  [frame EXCEPT !.columns = [f \in DOMAIN frame.columns |-> Strip(frame.columns[f])]]

\* ------------------------------------------------------------------- rows

LexOrder == <<"A", "B", "C", "D", "E", "F", "G", "H">>
LexRank(label) == CHOOSE i \in 1..Len(LexOrder) : LexOrder[i] = label

WinterMonths == {12, 1, 2}
ScenarioMonths == {1, 2}

MkRow(date, reg, cons, prod, dpc, auto, ech) ==
  [Date_Heure |-> date, Region |-> reg, Consommation |-> cons,
   Production_totale |-> prod, delta_prod_cons |-> dpc, Autonomie |-> auto,
   Ech_physiques |-> ech, Pompage |-> 1, Nucleaire |-> 1, Thermique |-> 0,
   Hydraulique |-> 1, Solaire |-> 1, Eolien |-> 0, Bioenergies |-> 0]

\* pd.read_csv gives the rows a RangeIndex 0..n-1.
WithIndex(rows) == [i \in 1..Len(rows) |-> rows[i] @@ ("index" :> (i - 1))]

Header(dateName, regionName) == [Date_Heure |-> dateName, Region |-> regionName]

MkFile(header, rows) == [columns |-> header, rows |-> WithIndex(rows)]

SeqsUpTo(S, n) == UNION {[1..k -> S] : k \in 0..n}

\* ------------------------------------------------------- temporal enrichment

\* A timestamp text <<y, m>> parses iff it names a month.
Parseable(raw) == Len(raw) = 2 /\ raw[2] \in 1..12

\* The outcome of a parse that raises instead of coercing.
Raised == <<-1>>

\* to_datetime without errors="coerce".
ToDatetimeRaise(raw) == IF Parseable(raw) THEN raw ELSE Raised

\* pd.to_datetime(..., errors="coerce") on one cell.
ToDatetime(raw) == IF Parseable(raw) THEN raw ELSE NA

\* .dt.year and .dt.month of one cell.
DtYear(d) == IF IsNA(d) THEN NA ELSE Some(d[1])
DtMonth(d) == IF IsNA(d) THEN NA ELSE Some(d[2])

ParseFails(frame) ==
  \E i \in 1..Len(frame.rows) : ToDatetime(frame.rows[i].Date_Heure) = Raised

Enriched(frame) ==
  [frame EXCEPT !.rows =
     [i \in 1..Len(frame.rows) |->
        LET d == ToDatetime(frame.rows[i].Date_Heure)
        IN [frame.rows[i] EXCEPT !.Date_Heure = d]
             @@ ("Annee" :> DtYear(d)) @@ ("Mois" :> DtMonth(d))]]

\* ------------------------------------------------------------------ filter

Column(rows, f) == [i \in 1..Len(rows) |-> rows[i][f]]

\* Equality that lets a missing cell equal a None scalar.
EqCellNaive(c, v) == c = v

\* Series == scalar: a missing cell, or a None scalar, compares False.
EqCell(c, v) == ~IsNA(c) /\ ~IsNA(v) /\ c = v

\* between with the upper bound left out.
BetweenExclusive(c, lo, hi) == ~IsNA(c) /\ lo <= Val(c) /\ Val(c) < hi

\* Series.between(lo, hi), inclusive="both"; a missing cell gives False.
Between(c, lo, hi) == ~IsNA(c) /\ lo <= Val(c) /\ Val(c) <= hi

\* df[mask]: the rows whose mask is True, in place order.
RECURSIVE BoolIndex(_, _)
BoolIndex(rows, mask) ==
  IF rows = <<>> THEN <<>>
  ELSE (IF Head(mask) THEN <<Head(rows)>> ELSE <<>>)
         \o BoolIndex(Tail(rows), Tail(mask))

Filter(rows, r, yr) ==
  BoolIndex(rows, [i \in 1..Len(rows) |->
                     EqCell(rows[i].Region, r) /\ Between(rows[i].Annee, yr[1], yr[2])])

\* sorted(df["Region"].dropna().unique())
RegionRank(c) == LexRank(Val(c))
YearRank(c) == Val(c)
DateRank(d) == d[1] * 12 + d[2]

\* The sort order of the keys of column f: labels lexically, years and timestamps
\* (or month periods) chronologically.
Rank(f, k) ==
  CASE f = "Region" -> RegionRank(k)
    [] f = "Annee" -> YearRank(k)
    [] OTHER -> DateRank(k)

SortKeys(S, f) ==
  [i \in 1..Cardinality(S) |->
     CHOOSE x \in S : Cardinality({y \in S : Rank(f, y) < Rank(f, x)}) = i - 1]

Keys(rows, f) == {rows[i][f] : i \in {j \in 1..Len(rows) : ~IsNA(rows[j][f])}}

SortedRegions(rows) == SortKeys(Keys(rows, "Region"), "Region")

\* ------------------------------------------------------------------- state

Pages == {"Accueil", "Exploration", "Visualisations", "Risque national",
          "Focus Hiver", "Focus ENR", "Synthese", "Conclusion", "Scenario 2030"}

NoFrame == [columns |-> <<>>, rows |-> <<>>]
NoShown == [k \in {} |-> 0]

ExactHeader == Header(DateName, RegionName)

RawDates == {<<2018, 1>>, <<2018, 7>>, <<2023, 12>>, <<2023, 13>>}
Headers == {Header(d, r) : d \in {DateName, <<Space, "Date - Heure", Space>>, <<"Date">>},
                           r \in {RegionName, <<"Region", Space>>}}

\* Files that vary the header, the timestamps and the regions.
StructRows ==
  {MkRow(d, r, 1, 1, 0, Some(500), 0) : d \in RawDates, r \in {Some("A"), Some("B"), NA}}

StructFiles == {MkFile(h, rows) : h \in Headers, rows \in SeqsUpTo(StructRows, MaxRows)}

\* Files that vary the numeric columns the derived metrics read.
DeltaRows ==
  {MkRow(d, Some(r), c, p, x, Some(500), 0) :
     d \in {<<2019, 1>>, <<2023, 7>>}, r \in {"A", "B"},
     c \in {1, 2}, p \in {1, 3}, x \in {-1, 0, 2}}

RatioRows ==
  {MkRow(<<2018, 1>>, Some(r), c, 1, 1 - c, a, e) :
     r \in {"A", "B"}, c \in {0, 1}, e \in {-1, 0, 1},
     a \in {NA, Some(299), Some(300), Some(700)}}

\* Files with one row per region for the first n labels, listed in reverse lexical
\* order, and possibly a second row for region "A".
TopFilesOf(n) ==
  {MkFile(ExactHeader,
          [i \in 1..n |-> MkRow(<<2018, 1>>, Some(LexOrder[n + 1 - i]), 1, 1, v[i], Some(500), 0)]
            \o extra) :
     v \in [1..n -> {-1, 0}],
     extra \in {<<>>} \cup {<<MkRow(<<2018, 2>>, Some("A"), 1, 1, e, Some(500), 0)>> : e \in {-2, 1}}}

TopFiles == UNION {TopFilesOf(n) : n \in 1..MaxTopRegions}

InitWith(files) ==
  /\ csv \in files
  /\ df = NoFrame
  /\ pc = "start"
  /\ page = "" /\ region = NA /\ annee = <<>> /\ regions = <<>>
  /\ df_filtered = <<>>
  /\ shown = NoShown
  /\ err = ""

Init == InitWith(StructFiles)
InitMetrics ==
  InitWith({MkFile(ExactHeader, rows) :
              rows \in SeqsUpTo(DeltaRows, MaxMetricRows) \cup SeqsUpTo(RatioRows, MaxMetricRows)})
InitTop == InitWith(TopFiles)

\* ----------------------------------------------------------------- actions

\* urlretrieve + pd.read_csv
Load ==
  /\ pc = "start"
  /\ df' = csv
  /\ pc' = "loaded"
  /\ UNCHANGED <<csv, page, region, annee, regions, df_filtered, shown, err>>

\* The schema check without its st.stop().
SchemaCheckNoStop ==
  /\ pc = "loaded"
  /\ shown' = IF HasColumn(df, DateName) THEN ("columns" :> df.columns)
              ELSE ("columns" :> df.columns) @@ ("error" :> "introuvable")
  /\ pc' = "checked"
  /\ UNCHANGED <<csv, df, page, region, annee, regions, df_filtered, err>>

\* st.write(df.columns); if "Date - Heure" not in df.columns: st.error; st.stop()
SchemaCheck ==
  /\ pc = "loaded"
  /\ IF HasColumn(df, DateName)
       THEN /\ shown' = ("columns" :> df.columns)
            /\ pc' = "checked"
       ELSE /\ shown' = ("columns" :> df.columns) @@ ("error" :> "introuvable")
            /\ pc' = "stopped"
  /\ UNCHANGED <<csv, df, page, region, annee, regions, df_filtered, err>>

\* df.columns.str.strip(); to_datetime(errors="coerce"); Annee; Mois; st.write(df.head())
Enrich ==
  /\ pc = "checked"
  /\ LET stripped == StripColumns(df)
     IN IF ~HasColumn(stripped, DateName)
          THEN /\ pc' = "crashed" /\ err' = "KeyError"
               /\ df' = stripped
               /\ UNCHANGED shown
          ELSE IF ParseFails(stripped)
          THEN /\ pc' = "crashed" /\ err' = "ParserError"
               /\ df' = stripped
               /\ UNCHANGED shown
          ELSE /\ df' = Enriched(stripped)
               /\ pc' = "enriched"
               /\ shown' = shown @@ ("head" :> SubSeq(df'.rows, 1, Min2(5, Len(df'.rows))))
               /\ UNCHANGED err
  /\ UNCHANGED <<csv, page, region, annee, regions, df_filtered>>

\* value=(2018, 2023) of the year slider.
DefaultRange == <<2018, 2023>>

\* The positions the year slider is moved to: the slider runs from min_value to
\* max_value, widened to hold its default range; its two handles are put on the ends
\* of the slider, the ends of the default range or a year of the dataset.
SliderStops(years, lo, hi) ==
  {Min2(lo, DefaultRange[1]), Max2(hi, DefaultRange[2]), DefaultRange[1], DefaultRange[2]}
    \cup {Val(years[i]) : i \in {j \in 1..Len(years) : ~IsNA(years[j])}}

\* set_page_config (taken to succeed), the sidebar widgets and the filter.  selectbox
\* returns one of its options, or None when it has none; int() of a NaN minimum raises
\* ValueError; the range slider returns a pair min <= max.
Sidebar ==
  /\ pc = "enriched"
  /\ IF ~HasColumn(df, RegionName)
       THEN /\ pc' = "crashed" /\ err' = "KeyError"
            /\ UNCHANGED <<page, region, annee, regions, df_filtered>>
       ELSE LET regs == SortedRegions(df.rows)
                years == Column(df.rows, "Annee")
                lo == SeriesMin(years)
                hi == SeriesMax(years)
            IN IF IsNA(lo)
                 THEN /\ pc' = "crashed" /\ err' = "ValueError"
                      /\ regions' = regs
                      /\ UNCHANGED <<page, region, annee, df_filtered>>
                 ELSE /\ regions' = regs
                      /\ page' \in Pages
                      /\ region' \in IF regs = <<>> THEN {NA}
                                     ELSE {regs[i] : i \in 1..Len(regs)}
                      /\ \E a, b \in SliderStops(years, Val(lo), Val(hi)) :
                           a <= b /\ annee' = <<a, b>>
                      /\ df_filtered' = Filter(df.rows, region', annee')
                      /\ pc' = "filtered"
                      /\ UNCHANGED err
  /\ UNCHANGED <<csv, df, shown>>

\* ------------------------------------------------------------- aggregation

RECURSIVE SelectRows(_, _, _)
\* The rows whose cell in column f equals the key k.
SelectRows(rows, f, k) ==
  IF rows = <<>> THEN <<>>
  ELSE (IF Head(rows)[f] = k THEN <<Head(rows)>> ELSE <<>>) \o SelectRows(Tail(rows), f, k)

\* groupby(f)[cols]: one entry per key present, keys sorted (sort=True), missing
\* keys dropped; each entry carries the per-column sums and the group size.
GroupBy(rows, f, cols) ==
  LET ks == SortKeys(Keys(rows, f), f)
  IN [i \in 1..Len(ks) |->
        LET grp == SelectRows(rows, f, ks[i])
        IN [key |-> ks[i],
            sum |-> [c \in cols |-> SumSeq(Column(grp, c))],
            cnt |-> Len(grp)]]

\* a.mean() < b.mean() and a.mean() = b.mean() of two groups, on exact rationals.
MeanLess(a, b, c) == a.sum[c] * b.cnt < b.sum[c] * a.cnt
MeanEq(a, b, c) == a.sum[c] * b.cnt = b.sum[c] * a.cnt

\* sort_values(): ascending by the mean of column c, equal means kept in place order.
SortValues(g, c) ==
  LET pos(i) == 1 + Cardinality({j \in 1..Len(g) :
                     MeanLess(g[j], g[i], c) \/ (MeanEq(g[j], g[i], c) /\ j < i)})
  IN [p \in 1..Len(g) |-> g[CHOOSE i \in 1..Len(g) : pos(i) = p]]

\* The n largest means instead of the n smallest.
NSmallestLargest(g, c, n) ==
  LET s == SortValues(g, c) IN SubSeq(s, Len(s) - Min2(n, Len(s)) + 1, Len(s))

\* nsmallest(n), keep="first": the n smallest means, ascending, first occurrences first.
NSmallest(g, c, n) ==
  LET s == SortValues(g, c) IN SubSeq(s, 1, Min2(n, Len(s)))

IndexList(g) == [i \in 1..Len(g) |-> Val(g[i].key)]

\* Series.mean() with skipna over a nullable column: [sum, cnt] of the defined cells.
MeanSkipNA(rows, f) ==
  LET c == Column(rows, f)
      def == BoolIndex(c, [i \in 1..Len(c) |-> ~IsNA(c[i])])
  IN [sum |-> SumSeq([i \in 1..Len(def) |-> Val(def[i])]), cnt |-> Len(def)]

\* round(mean * scale, ndigits) on a [sum, cnt] mean already held in the unit of the
\* last digit kept; NaN for the mean of nothing.
RoundMean(m) == IF m.cnt = 0 THEN NA ELSE Some(RoundHalfEven(m.sum, m.cnt))

\* numpy division of two sums: x/0 is nan for x = 0 and +-inf otherwise, never raises.
Divide(num, den) ==
  IF den # 0 THEN [kind |-> "finite", num |-> num, den |-> den]
  ELSE IF num = 0 THEN [kind |-> "nan", num |-> num, den |-> den]
  ELSE IF num > 0 THEN [kind |-> "inf", num |-> num, den |-> den]
  ELSE [kind |-> "-inf", num |-> num, den |-> den]

\* `auto < bound`: a comparison with NaN is False.
LessThan(c, bound) == ~IsNA(c) /\ Val(c) < bound

\* if auto < 30: error / elif auto < 70: warning / else: success (tenths of a percent)
Interpretation(auto) ==
  IF LessThan(auto, 300) THEN "error"
  ELSE IF LessThan(auto, 700) THEN "warning"
  ELSE "success"

\* .dt.month.isin(months): False on NaT.
MonthIn(d, months) == ~IsNA(d) /\ d[2] \in months

\* lambda x: -x if x < 0 else 0
Deficit(x) == IF x < 0 THEN -x ELSE 0

\* groupby("Date - Heure")[[conso, prod]].sum() with delta = prod - conso added.
National(rows) ==
  LET g == GroupBy(rows, "Date_Heure", {"Consommation", "Production_totale"})
  IN [i \in 1..Len(g) |->
        [Date_Heure |-> g[i].key,
         Consommation |-> g[i].sum["Consommation"],
         Production_totale |-> g[i].sum["Production_totale"],
         delta |-> g[i].sum["Production_totale"] - g[i].sum["Consommation"]]]

\* df_filtered["delta"] = df_filtered["Production_totale"] - df_filtered["Consommation (MW)"]
WithDelta(rows) ==
  [i \in 1..Len(rows) |->
     rows[i] @@ ("delta" :> (rows[i].Production_totale - rows[i].Consommation))]

Sources == {"Nucleaire", "Thermique", "Hydraulique", "Solaire", "Eolien", "Bioenergies"}

TopK == 5

\* ------------------------------------------------------------------- pages

Done(out) ==
  /\ pc = "filtered"
  /\ pc' = "done"
  /\ shown' = shown @@ out
  /\ UNCHANGED <<csv, page, region, annee, regions, err>>

RenderAccueil ==
  /\ page = "Accueil"
  /\ Done("title" :> "Accueil")
  /\ UNCHANGED <<df, df_filtered>>

RenderExploration ==
  /\ page = "Exploration"
  /\ Done(("dataframe" :> df_filtered) @@ ("download" :> df_filtered))
  /\ UNCHANGED <<df, df_filtered>>

\* The same page with the delta column assigned on the dataset as well.
RenderVisualisationsWriteBack ==
  /\ page = "Visualisations"
  /\ df_filtered' = WithDelta(df_filtered)
  /\ df' = [df EXCEPT !.rows = WithDelta(df.rows)]
  /\ Done("box" :> df_filtered')

RenderVisualisations ==
  /\ page = "Visualisations"
  /\ LET df_month == [i \in 1..Len(df_filtered) |->
                        [df_filtered[i] EXCEPT !.Mois = df_filtered[i].Date_Heure]]
         monthly == GroupBy(df_month, "Mois", {"Consommation", "Production_totale"})
         df_pompage == GroupBy(df_filtered, "Annee", {"Pompage"})
         prod_filtres == GroupBy(df_filtered, "Annee", Sources)
     IN /\ df_filtered' = WithDelta(df_filtered)
        /\ Done(("monthly" :> monthly) @@ ("pompage" :> df_pompage)
                  @@ ("box" :> df_filtered') @@ ("stack" :> prod_filtres))
  /\ UNCHANGED df

RenderRisque ==
  /\ page = "Risque national"
  /\ \E df_nat \in {National(df.rows)} :
       LET df_hiver == BoolIndex(df_nat, [i \in 1..Len(df_nat) |->
                                            MonthIn(df_nat[i].Date_Heure, WinterMonths)])
           neg == BoolIndex(df_nat, [i \in 1..Len(df_nat) |-> df_nat[i].delta < 0])
           score == SumSeq([i \in 1..Len(df_nat) |-> Deficit(df_nat[i].delta)])
       IN Done(("df_nat" :> df_nat) @@ ("df_hiver" :> df_hiver)
                 @@ ("neg_count" :> Len(neg)) @@ ("hist" :> neg) @@ ("score" :> score))
  /\ UNCHANGED <<df, df_filtered>>

RenderHiver ==
  /\ page = "Focus Hiver"
  /\ LET df_hiver == BoolIndex(df.rows, [i \in 1..Len(df.rows) |->
                                           MonthIn(df.rows[i].Date_Heure, WinterMonths)])
         df_hiver_nat == National(df_hiver)
         df_risk == SortValues(GroupBy(df_hiver, "Region", {"delta_prod_cons"}),
                               "delta_prod_cons")
     IN Done(("df_hiver_nat" :> df_hiver_nat) @@ ("df_risk" :> df_risk))
  /\ UNCHANGED <<df, df_filtered>>

RenderENR ==
  /\ page = "Focus ENR"
  /\ LET df_enr == [i \in 1..Len(df.rows) |->
                      df.rows[i] @@ ("Prod_ENR" :>
                        (df.rows[i].Solaire + df.rows[i].Eolien
                           + df.rows[i].Hydraulique + df.rows[i].Bioenergies))]
         enr_reg == SortValues(GroupBy(df_enr, "Region", {"Prod_ENR"}), "Prod_ENR")
     IN Done("enr_reg" :> enr_reg)
  /\ UNCHANGED <<df, df_filtered>>

RenderSynthese ==
  /\ page = "Synthese"
  /\ LET auto == RoundMean(MeanSkipNA(df_filtered, "Autonomie"))
         delta == RoundMean([sum |-> SumSeq(Column(df_filtered, "delta_prod_cons")),
                             cnt |-> Len(df_filtered)])
         dependance == Divide(SumSeq(Column(df_filtered, "Ech_physiques")),
                              SumSeq(Column(df_filtered, "Consommation")))
         df_carte == GroupBy(df.rows, "Region", {"delta_prod_cons"})
     IN Done(("auto" :> auto) @@ ("delta" :> delta) @@ ("dependance" :> dependance)
               @@ ("messages" :> <<Interpretation(auto)>>) @@ ("df_carte" :> df_carte))
  /\ UNCHANGED <<df, df_filtered>>

RenderConclusion ==
  /\ page = "Conclusion"
  /\ Done("title" :> "Conclusion")
  /\ UNCHANGED <<df, df_filtered>>

\* df[month.isin([1, 2]) & Region.isin(top_risque)].copy() with
\* Simul_delta = delta_prod_cons * 1.2, held in fifths of a MW.
Scenario(rows, top_risque) ==
  LET top == {top_risque[i] : i \in 1..Len(top_risque)}
      sel == BoolIndex(rows, [i \in 1..Len(rows) |->
                        /\ MonthIn(rows[i].Date_Heure, ScenarioMonths)
                        /\ ~IsNA(rows[i].Region)
                        /\ Val(rows[i].Region) \in top])
  IN [i \in 1..Len(sel) |-> sel[i] @@ ("Simul_delta" :> (sel[i].delta_prod_cons * 6))]

TopRisque(rows) ==
  IndexList(NSmallest(GroupBy(rows, "Region", {"delta_prod_cons"}),
                      "delta_prod_cons", TopK))

RenderScenario ==
  /\ page = "Scenario 2030"
  /\ \E top_risque \in {TopRisque(df.rows)} :
       \E df_2030 \in {Scenario(df.rows, top_risque)} :
         LET total_deficit ==
               SumSeq([i \in 1..Len(df_2030) |-> Deficit(df_2030[i].Simul_delta)])
         IN Done(("top_risque" :> top_risque) @@ ("df_2030" :> df_2030)
                   @@ ("total_deficit" :> (total_deficit \div 5)))
  /\ UNCHANGED <<df, df_filtered>>

\* A widget interaction re-runs the script from the top.
Rerun ==
  /\ pc = "done"
  /\ pc' = "start"
  /\ df' = NoFrame /\ page' = "" /\ region' = NA /\ annee' = <<>> /\ regions' = <<>>
  /\ df_filtered' = <<>> /\ shown' = NoShown /\ err' = ""
  /\ UNCHANGED csv

Next ==
  \/ Load \/ SchemaCheck \/ Enrich \/ Sidebar
  \/ RenderAccueil \/ RenderExploration \/ RenderVisualisations \/ RenderRisque
  \/ RenderHiver \/ RenderENR \/ RenderSynthese \/ RenderConclusion \/ RenderScenario
  \/ Rerun

Spec == Init /\ [][Next]_vars
SpecMetrics == InitMetrics /\ [][Next]_vars
SpecTop == InitTop /\ [][Next]_vars

\* ------------------------------------------------------------------ claims

Evaluated == pc \in {"filtered", "done"}
EnrichmentDone == pc \in {"enriched", "filtered", "done"}
RowsOf(frame) == {frame.rows[i] : i \in 1..Len(frame.rows)}
InRange(c) == ~IsNA(c) /\ annee[1] <= Val(c) /\ Val(c) <= annee[2]
Matching == {i \in 1..Len(df.rows) :
               region # NA /\ df.rows[i].Region = region /\ InRange(df.rows[i].Annee)}
Core(row) == [f \in (DOMAIN row) \ {"delta"} |-> row[f]]
SumOver(rows, f) == SumSeq(Column(rows, f))
ProdMinusCons(rows) == SumOver(rows, "Production_totale") - SumOver(rows, "Consommation")

\* C1: when the loaded file has no column named "Date - Heure", the run shows the
\* diagnostic and stops at the schema check: it never enriches, never evaluates the
\* sidebar or the filter, never renders a page, and shows nothing but the diagnostic.
SchemaHalt ==
  ~HasColumn(csv, DateName) =>
    /\ pc \in {"start", "loaded", "stopped"}
    /\ pc = "stopped" => (df = csv /\ DOMAIN shown = {"columns", "error"})
    /\ pc # "stopped" => shown = NoShown
    /\ page = "" /\ region = NA /\ annee = <<>> /\ regions = <<>> /\ df_filtered = <<>>
    /\ err = ""

SchemaHaltWitness ==
  /\ pc = "stopped"
  /\ Len(csv.rows) > 0
  /\ ~HasColumn(csv, DateName)

\* C2 (as claimed): whenever some column name equals "Date - Heure" once trimmed, the
\* schema check passes and the run goes on to temporal enrichment.
TrimmedSchemaPasses ==
  ((\E f \in DOMAIN csv.columns : Strip(csv.columns[f]) = DateName)
     /\ pc \notin {"start", "loaded"})
    => pc # "stopped"

\* C3: the filtered view holds exactly the rows of the dataset whose Region is the
\* selected one and whose Annee lies in [min, max], bounds included, in the dataset's
\* order; rows with a missing Annee stay in the dataset and never enter the view.
FilterExact ==
  Evaluated =>
    /\ Len(df.rows) = Len(csv.rows)
    /\ \A k \in 1..Len(df_filtered) :
         \E i \in Matching : Core(df_filtered[k]) = df.rows[i]
    /\ \A i \in Matching :
         \E k \in 1..Len(df_filtered) : df_filtered[k].index = df.rows[i].index
    /\ \A k, l \in 1..Len(df_filtered) :
         k < l => df_filtered[k].index < df_filtered[l].index
    /\ \A k \in 1..Len(df_filtered) : ~IsNA(df_filtered[k].Annee)

FilterExactWitness ==
  /\ pc = "filtered"
  /\ Len(df_filtered) = 1
  /\ annee[1] = annee[2]
  /\ \E i \in 1..Len(df.rows) : df.rows[i].Region = region /\ IsNA(df.rows[i].Annee)

DeltaIsProdMinusCons ==
  pc = "done" =>
    /\ page = "Visualisations" =>
         \A k \in 1..Len(shown.box) :
           shown.box[k].delta = shown.box[k].Production_totale - shown.box[k].Consommation
    /\ page = "Risque national" =>
         \A k \in 1..Len(shown.df_nat) :
           shown.df_nat[k].delta =
             ProdMinusCons(SelectRows(df.rows, "Date_Heure", shown.df_nat[k].Date_Heure))
    /\ page = "Focus Hiver" =>
         \A k \in 1..Len(shown.df_risk) :
           LET grp == BoolIndex(SelectRows(df.rows, "Region", shown.df_risk[k].key),
                        [i \in 1..Len(SelectRows(df.rows, "Region", shown.df_risk[k].key)) |->
                           MonthIn(SelectRows(df.rows, "Region", shown.df_risk[k].key)[i].Date_Heure,
                                   WinterMonths)])
           IN shown.df_risk[k].sum["delta_prod_cons"] = ProdMinusCons(grp)
    /\ page = "Synthese" =>
         shown.delta = RoundMean([sum |-> ProdMinusCons(df_filtered), cnt |-> Len(df_filtered)])
    /\ page = "Scenario 2030" =>
         \A k \in 1..Len(shown.df_2030) :
           shown.df_2030[k].Simul_delta =
             6 * (shown.df_2030[k].Production_totale - shown.df_2030[k].Consommation)

\* C6: top_risque lists min(5, n) pairwise distinct regions of the dataset, the ones of
\* smallest mean delta_prod_cons, in ascending order of that mean, regions of equal
\* mean in lexical order of their labels.
TopRisqueSorted ==
  (pc = "done" /\ page = "Scenario 2030") =>
    LET t == shown.top_risque
        R == {Val(c) : c \in Keys(df.rows, "Region")}
        S(l) == SumOver(SelectRows(df.rows, "Region", Some(l)), "delta_prod_cons")
        N(l) == Len(SelectRows(df.rows, "Region", Some(l)))
        Lt(a, b) == S(a) * N(b) < S(b) * N(a)
        Eq(a, b) == S(a) * N(b) = S(b) * N(a)
        Before(a, b) == Lt(a, b) \/ (Eq(a, b) /\ LexRank(a) < LexRank(b))
    IN /\ Len(t) = Min2(TopK, Cardinality(R))
       /\ \A i \in 1..Len(t) : t[i] \in R
       /\ \A i, j \in 1..Len(t) : i < j => (t[i] # t[j] /\ Before(t[i], t[j]))
       /\ \A l \in R : (\A i \in 1..Len(t) : t[i] # l) =>
                         \A i \in 1..Len(t) : Before(t[i], l)

TopRisqueWitness ==
  /\ pc = "done" /\ page = "Scenario 2030"
  /\ Len(shown.top_risque) = TopK
  /\ Cardinality(Keys(df.rows, "Region")) > TopK
  /\ Len(df.rows) > Cardinality(Keys(df.rows, "Region"))
  /\ shown.top_risque[1] # "A"
  /\ \E i \in 1..Len(df.rows) : \E j \in 1..Len(df.rows) :
       /\ df.rows[i].Region # df.rows[j].Region
       /\ df.rows[i].delta_prod_cons = df.rows[j].delta_prod_cons

\* C7 (as claimed): on the Synthese page, when the Consommation of the filtered subset
\* sums to zero the Dependance shown is the undefined value, never any number.
DependanceNullOnZero ==
  (pc = "done" /\ page = "Synthese" /\ SumOver(df_filtered, "Consommation") = 0)
    => shown.dependance.kind = "nan"

\* C8: once enriched, the dataset is never changed by the sidebar, the filter or a page
\* render, and the columns a page adds to its own view or copy (delta, Prod_ENR,
\* Simul_delta, the month period) are in neither the dataset nor the filtered view of a
\* later run.
DatasetFrozen ==
  /\ [](EnrichmentDone =>
          /\ \A r \in RowsOf(df) :
               /\ DOMAIN r = (DOMAIN MkRow(NA, NA, 0, 0, 0, NA, 0)) \cup {"index", "Annee", "Mois"}
               /\ r.Mois = DtMonth(r.Date_Heure)
          /\ pc = "filtered" => \A k \in 1..Len(df_filtered) : df_filtered[k] \in RowsOf(df))
  /\ [][(EnrichmentDone /\ pc' # "start") => df' = df]_vars

DatasetFrozenWitness ==
  /\ pc = "done" /\ page = "Visualisations"
  /\ Len(df_filtered) > 0
  /\ "delta" \in DOMAIN df_filtered[1]
  /\ "delta" \notin DOMAIN df.rows[1]

\* C9: after enrichment every row has Annee and Mois both defined, when its timestamp
\* parses, or both missing, when it does not; an unparseable timestamp raises nothing.
YearMonthTogether ==
  /\ err # "ParserError"
  /\ (HasColumn(csv, DateName) /\ pc \notin {"start", "loaded", "checked"}) =>
       /\ Len(df.rows) = Len(csv.rows)
       /\ \A i \in 1..Len(df.rows) :
            LET raw == csv.rows[i].Date_Heure
                r == df.rows[i]
            IN /\ IsNA(r.Annee) <=> IsNA(r.Mois)
               /\ Parseable(raw) => (r.Annee = Some(raw[1]) /\ r.Mois = Some(raw[2]))
               /\ ~Parseable(raw) => (IsNA(r.Annee) /\ IsNA(r.Date_Heure))

YearMonthWitness ==
  /\ pc = "enriched"
  /\ \E i \in 1..Len(df.rows) : IsNA(df.rows[i].Annee) /\ ~Parseable(csv.rows[i].Date_Heure)
  /\ \E i \in 1..Len(df.rows) : ~IsNA(df.rows[i].Annee)

\* C10 (as claimed): the Synthese page shows exactly one interpretation message: the
\* error one only when auto < 30, the warning one only when 30 <= auto < 70, the success
\* one only when auto is a defined number >= 70.
InterpretationMatchesAuto ==
  (pc = "done" /\ page = "Synthese") =>
    LET auto == shown.auto
        m == shown.messages
    IN /\ Len(m) = 1
       /\ m[1] = "error" => (~IsNA(auto) /\ Val(auto) < 300)
       /\ m[1] = "warning" => (~IsNA(auto) /\ 300 <= Val(auto) /\ Val(auto) < 700)
       /\ m[1] = "success" => (~IsNA(auto) /\ Val(auto) >= 700)

====
